---- MODULE Spec2Model ----
(***************************************************************************)
(* Model of serde-split (src/src/lib.rs): the two derive macros            *)
(* derive_serialize / derive_deserialize, the attribute filter they share, *)
(* and the dispatching trait implementation they emit.                     *)
(*                                                                         *)
(* Two specifications:                                                     *)
(*   SpecFilter  the while loop of filter_attrs, one iteration per step;   *)
(*   Spec        one macro expansion of a parsed DeriveInput followed by   *)
(*               calls of the emitted serialize / deserialize function.    *)
(***************************************************************************)
EXTENDS Integers, Sequences, FiniteSets, TLC

VARIABLES
    \* ---- filter_attrs (lib.rs 19-37) ----
    attrs,      \* the Vec<Attribute> being filtered in place
    current,    \* the loop index (0-based, as in the source)
    is_json,    \* the mode flag
    fpc,        \* "loop" while the while loop runs, "done" after it, "idle" under Spec
    orig,       \* the vector as passed in (history, never written by the loop)
    examined,   \* spans of the entries read as attrs[current], in order (history)
    \* ---- derive_serialize / derive_deserialize and the emitted impl ----
    input,      \* the parsed DeriveInput
    pc,         \* "input" before expansion, then "Serialize" or "Deserialize"
    out,        \* what the expansion emitted
    call        \* the last call of the emitted serialize/deserialize fn

vars == <<attrs, current, is_json, fpc, orig, examined, input, pc, out, call>>

(***************************************************************************)
(* Bounds                                                                  *)
(***************************************************************************)
MaxLen == 3         \* longest attribute vector given to the filter loop

\* The value of a variable the running specification does not use.
Idle == "idle"

(***************************************************************************)
(* Attributes.  A syn::Attribute is modelled by its source position (span) *)
(* and its Meta: Meta::Path(path), Meta::List{path, tokens} or             *)
(* Meta::NameValue{path, value}.  payload holds the tokens / the value and *)
(* is "" for Meta::Path.                                                   *)
(***************************************************************************)
Paths == {"serde", "json", "bin", "doc"}

\* Every path with every Meta variant: #[p], #[p(a)], #[p = b].
Metas ==
    {[kind |-> "Path", path |-> p, payload |-> ""] : p \in Paths}
    \cup {[kind |-> "List", path |-> p, payload |-> "a"] : p \in Paths}
    \cup {[kind |-> "NameValue", path |-> p, payload |-> "b"] : p \in Paths}

\* Every attribute vector of length n over Metas; entry i sits at span i.
AttrVecs(n) ==
    {[i \in 1..n |-> [span |-> i, meta |-> m[i]]] : m \in [1..n -> Metas]}

\* Path::is_ident: the path is the single identifier `name`.
is_ident(attr, name) == attr.meta.path = name

\* lib.rs 20
replace(json) == IF json THEN "json" ELSE "bin"

\* ReplacePath with the Meta::List arm assigning the whole meta, as the
\* Meta::Path arm does, instead of list.path.
ReplacePathWhole(meta) ==
    CASE meta.kind = "Path"      -> [kind |-> "Path", path |-> "serde", payload |-> meta.payload]
      [] meta.kind = "List"      -> [kind |-> "Path", path |-> "serde", payload |-> ""]
      [] meta.kind = "NameValue" -> [meta EXCEPT !.path = "serde"]

\* lib.rs 25-29: the match rewrites the path in place, whatever the variant.
ReplacePath(meta) ==
    CASE meta.kind = "Path"      -> [kind |-> "Path", path |-> "serde", payload |-> meta.payload]
      [] meta.kind = "List"      -> [meta EXCEPT !.path = "serde"]
      [] meta.kind = "NameValue" -> [meta EXCEPT !.path = "serde"]

\* Vec::remove(index), index 0-based.
Remove(v, index) ==
    [i \in 1..(Len(v) - 1) |-> IF i <= index THEN v[i] ELSE v[i + 1]]

\* LoopCond off by one: the last entry is never looked at.
LoopCondShort(v, cur) == cur + 1 < Len(v)

\* lib.rs 23: the while condition.
LoopCond(v, cur) == cur < Len(v)

\* LoopBody without the `continue` after attrs.remove(current).
LoopBodyNoContinue(v, cur, json) ==
    IF is_ident(v[cur + 1], replace(json))
    THEN [attrs |-> [v EXCEPT ![cur + 1].meta = ReplacePath(@)], current |-> cur + 1]
    ELSE IF ~is_ident(v[cur + 1], "serde")
         THEN [attrs |-> Remove(v, cur), current |-> cur + 1]
         ELSE [attrs |-> v, current |-> cur + 1]

\* lib.rs 24-35: one iteration of the loop body on (v, cur).
LoopBody(v, cur, json) ==
    IF is_ident(v[cur + 1], replace(json))
    THEN [attrs |-> [v EXCEPT ![cur + 1].meta = ReplacePath(@)], current |-> cur + 1]
    ELSE IF ~is_ident(v[cur + 1], "serde")
         THEN [attrs |-> Remove(v, cur), current |-> cur]
         ELSE [attrs |-> v, current |-> cur + 1]

RECURSIVE FilterLoop(_, _, _)
FilterLoop(v, cur, json) ==
    IF LoopCond(v, cur)
    THEN LET s == LoopBody(v, cur, json) IN FilterLoop(s.attrs, s.current, json)
    ELSE v

\* lib.rs 19-37: the vector filter_attrs leaves behind.
filter_attrs(v, json) == FilterLoop(v, 0, json)

(***************************************************************************)
(* Declarations.  A syn::DeriveInput is                                    *)
(*   [attrs, ident, generics: [params, where_clause], data]                *)
(* where data is [kind: "Struct"|"Enum"|"Union", fields, variants]         *)
(* (fields is empty for an enum, variants for a struct or union), a field  *)
(* is [attrs, ident, ty] and a variant is [attrs, ident, fields].          *)
(* An Option<WhereClause> is [some, predicates].                           *)
(***************************************************************************)
MaxAttrs == 2       \* most attributes in one declaration (all its lists together)
MaxParams == 3      \* most generic parameters of a declaration

None == [some |-> FALSE, predicates |-> <<>>]

Some(preds) == [some |-> TRUE, predicates |-> preds]

\* lib.rs 39-63: filter_attrs on the declaration's own list, then on every
\* list the match on input.data reaches.
FilterFields(fields, json) ==
    [i \in 1..Len(fields) |->
        [fields[i] EXCEPT !.attrs = filter_attrs(@, json)]]

\* FilterVariants without the inner pass over variant.fields.
FilterVariantsShallow(variants, json) ==
    [i \in 1..Len(variants) |->
        [variants[i] EXCEPT !.attrs = filter_attrs(@, json)]]

FilterVariants(variants, json) ==
    [i \in 1..Len(variants) |->
        [variants[i] EXCEPT !.attrs = filter_attrs(@, json),
                            !.fields = FilterFields(@, json)]]

filter_data(decl, json) ==
    [decl EXCEPT
        !.attrs = filter_attrs(@, json),
        !.data = CASE @.kind = "Struct" -> [@ EXCEPT !.fields = FilterFields(@, json)]
                   [] @.kind = "Enum"   -> [@ EXCEPT !.variants = FilterVariants(@, json)]
                   [] @.kind = "Union"  -> [@ EXCEPT !.fields = FilterFields(@, json)]]

\* JsonIdent formatted with the other copy's suffix.
JsonIdentPasted(ident) == ident \o "BinaryImpl"

\* lib.rs 77-78, 153-154: quote::format_ident!("{}JsonImpl", ident) etc.
JsonIdent(ident) == ident \o "JsonImpl"

BinIdent(ident) == ident \o "BinaryImpl"

\* TypeBounds without the match on the parameter's kind.
RECURSIVE TypeBoundsAll(_, _)
TypeBoundsAll(params, bound) ==
    IF params = <<>> THEN <<>>
    ELSE <<[bounded |-> Head(params).ident, bound |-> bound]>>
         \o TypeBoundsAll(Tail(params), bound)

\* lib.rs 93-99, 102-108 (178-184, 187-193): one predicate per
\* GenericParam::Type, in order; lifetime and const parameters give None.
RECURSIVE TypeBounds(_, _)
TypeBounds(params, bound) ==
    IF params = <<>> THEN <<>>
    ELSE (IF Head(params).kind = "Type"
          THEN <<[bounded |-> Head(params).ident, bound |-> bound]>>
          ELSE <<>>) \o TypeBounds(Tail(params), bound)

\* ImplWhere that always synthesizes the clause from the new bounds alone.
ImplWhereFresh(generics, bound) ==
    IF generics.params # <<>>
    THEN Some(TypeBounds(generics.params, bound))
    ELSE None

\* lib.rs 89-113 (174-198): the where clause of the emitted impl.
ImplWhere(generics, bound) ==
    IF generics.where_clause.some
    THEN Some(generics.where_clause.predicates \o TypeBounds(generics.params, bound))
    ELSE IF generics.params # <<>>
         THEN Some(TypeBounds(generics.params, bound))
         ELSE None

\* lib.rs 125, 210: `#where_clause` in the impl header.  quote prints an
\* Option only when it is Some, and syn prints a WhereClause only when it
\* has predicates; the result is the predicates after the `where` keyword,
\* empty when no clause is printed.
EmitWhere(clause) ==
    IF clause.some /\ clause.predicates # <<>> THEN clause.predicates ELSE <<>>

\* lib.rs 163-168: impl_generics of the deserialize impl, 'de inserted first.
DeImplGenerics(params) == <<[kind |-> "Lifetime", ident |-> "'de"]>> \o params

\* The modes the two copies are filtered in.
\* lib.rs 74-75
SerJsonMode == TRUE

SerBinMode == FALSE

\* lib.rs 150-151
DeJsonMode == TRUE

DeBinMode == TRUE

\* lib.rs 66-139
SerializeOutput(decl) ==
    [trait    |-> "Serialize",
     remote   |-> decl.ident,
     json     |-> [filter_data(decl, SerJsonMode) EXCEPT !.ident = JsonIdent(decl.ident)],
     bin      |-> [filter_data(decl, SerBinMode) EXCEPT !.ident = BinIdent(decl.ident)],
     impl_gen |-> decl.generics.params,
     for      |-> decl.ident,
     ty_gen   |-> [i \in 1..Len(decl.generics.params) |-> decl.generics.params[i].ident],
     where_clause |-> EmitWhere(ImplWhere(decl.generics, "Serialize"))]

\* lib.rs 142-224
DeserializeOutput(decl) ==
    [trait    |-> "Deserialize",
     remote   |-> decl.ident,
     json     |-> [filter_data(decl, DeJsonMode) EXCEPT !.ident = JsonIdent(decl.ident)],
     bin      |-> [filter_data(decl, DeBinMode) EXCEPT !.ident = BinIdent(decl.ident)],
     impl_gen |-> DeImplGenerics(decl.generics.params),
     for      |-> decl.ident,
     ty_gen   |-> [i \in 1..Len(decl.generics.params) |-> decl.generics.params[i].ident],
     where_clause |-> EmitWhere(ImplWhere(decl.generics, "Deserialize<'de>"))]

\* lib.rs 117-123, 202-208: the impl serde derives for a shadow.  Its
\* outcome is the format's, produced on behalf of that shadow.
ShadowImpl(shadow, format) == [ok |-> format.ok, by |-> shadow]

\* Dispatch with the two branches exchanged.
DispatchSwapped(o, format) ==
    IF format.is_human_readable
    THEN [invoked |-> <<o.bin.ident>>, ret |-> ShadowImpl(o.bin.ident, format)]
    ELSE [invoked |-> <<o.json.ident>>, ret |-> ShadowImpl(o.json.ident, format)]

\* lib.rs 129-133, 214-218: the body of the emitted function.
Dispatch(o, format) ==
    IF format.is_human_readable
    THEN [invoked |-> <<o.json.ident>>, ret |-> ShadowImpl(o.json.ident, format)]
    ELSE [invoked |-> <<o.bin.ident>>, ret |-> ShadowImpl(o.bin.ident, format)]

(***************************************************************************)
(* The declarations the expansion is run on.                               *)
(***************************************************************************)
\* One attribute per path, of differing payload shape.
DeclMetas ==
    {[kind |-> "List", path |-> "serde", payload |-> "a"],
     [kind |-> "List", path |-> "json", payload |-> "a"],
     [kind |-> "NameValue", path |-> "bin", payload |-> "b"],
     [kind |-> "Path", path |-> "doc", payload |-> ""]}

DeclAttrVecs(n) ==
    {[i \in 1..n |-> [span |-> i, meta |-> m[i]]] : m \in [1..n -> DeclMetas]}

\* Every way to fill n attribute lists with at most budget attributes in all.
RECURSIVE Fill(_, _)
Fill(n, budget) ==
    IF n = 0 THEN {<<>>}
    ELSE UNION {{<<v>> \o rest : rest \in Fill(n - 1, budget - Len(v))} :
                    v \in UNION {DeclAttrVecs(k) : k \in 0..budget}}

FieldTys == <<"u8", "String", "bool">>

MkFields(lists) ==
    [i \in 1..Len(lists) |->
        [attrs |-> lists[i], ident |-> "f" \o ToString(i), ty |-> FieldTys[i]]]

RECURSIVE Sum(_)
Sum(s) == IF s = <<>> THEN 0 ELSE Head(s) + Sum(Tail(s))

\* counts[i] is the number of fields of variant i; lists holds, variant by
\* variant, the variant's own list followed by its fields' lists.
MkVariants(counts, lists) ==
    [i \in 1..Len(counts) |->
        LET base == Sum(SubSeq(counts, 1, i - 1)) + (i - 1) IN
        [attrs  |-> lists[base + 1],
         ident  |-> "V" \o ToString(i),
         fields |-> MkFields(SubSeq(lists, base + 2, base + 1 + counts[i]))]]

NoGenerics == [params |-> <<>>, where_clause |-> None]

StructShapes == {0, 2}

EnumShapes == {<<>>, <<0>>, <<1, 0, 1>>}

UnionShapes == {1, 2}

\* Declarations without generics, over every shape, with every placement of
\* at most MaxAttrs attributes.
AttrInputs ==
    UNION {{[attrs |-> l[1], ident |-> "Foo", generics |-> NoGenerics,
             data |-> [kind |-> "Struct", fields |-> MkFields(Tail(l)), variants |-> <<>>]] :
                l \in Fill(1 + n, MaxAttrs)} : n \in StructShapes}
    \cup
    UNION {{[attrs |-> l[1], ident |-> "Foo", generics |-> NoGenerics,
             data |-> [kind |-> "Enum", fields |-> <<>>, variants |-> MkVariants(c, Tail(l))]] :
                l \in Fill(1 + Len(c) + Sum(c), MaxAttrs)} : c \in EnumShapes}
    \cup
    UNION {{[attrs |-> l[1], ident |-> "Foo", generics |-> NoGenerics,
             data |-> [kind |-> "Union", fields |-> MkFields(Tail(l)), variants |-> <<>>]] :
                l \in Fill(1 + n, MaxAttrs)} : n \in UnionShapes}

ParamKinds == {"Type", "Lifetime", "Const"}

ParamLists ==
    UNION {{[i \in 1..n |-> [kind |-> k[i], ident |-> "P" \o ToString(i)]] :
                k \in [1..n -> ParamKinds]} : n \in 0..MaxParams}

WhereClauses == {None, Some(<<>>), Some(<<[bounded |-> "u8", bound |-> "Copy"]>>)}

Idents == {"Foo", "FooJsonImpl"}

\* Declarations of one fixed body, over every generic parameter list, every
\* where clause and every identifier.
GenericInputs ==
    {[attrs |-> <<>>, ident |-> id,
      generics |-> [params |-> ps, where_clause |-> w],
      data |-> [kind |-> "Struct", variants |-> <<>>,
                fields |-> MkFields(<<
                    <<[span |-> 1, meta |-> [kind |-> "List", path |-> "json", payload |-> "a"]]>>,
                    <<[span |-> 1, meta |-> [kind |-> "List", path |-> "bin", payload |-> "b"]]>> >>)]] :
        id \in Idents, ps \in ParamLists, w \in WhereClauses}

Inputs == AttrInputs \cup GenericInputs

Formats == [is_human_readable : BOOLEAN, ok : BOOLEAN]

NoCall == [made |-> FALSE]

(***************************************************************************)
(* Spec: one expansion, then calls of the emitted function.                *)
(***************************************************************************)
Init ==
    /\ input \in Inputs
    /\ pc = "input"
    /\ out = [trait |-> "none"]
    /\ call = NoCall
    /\ attrs = <<>> /\ current = 0 /\ is_json = FALSE /\ fpc = Idle
    /\ orig = <<>> /\ examined = <<>>

derive_serialize ==
    /\ pc = "input"
    /\ pc' = "Serialize"
    /\ out' = SerializeOutput(input)
    /\ UNCHANGED <<input, call, attrs, current, is_json, fpc, orig, examined>>

derive_deserialize ==
    /\ pc = "input"
    /\ pc' = "Deserialize"
    /\ out' = DeserializeOutput(input)
    /\ UNCHANGED <<input, call, attrs, current, is_json, fpc, orig, examined>>

\* lib.rs 126-134: <Name as Serialize>::serialize(&self, serializer)
serialize ==
    /\ pc = "Serialize"
    /\ \E format \in Formats :
         call' = [made |-> TRUE, format |-> format,
                  invoked |-> Dispatch(out, format).invoked,
                  ret |-> Dispatch(out, format).ret]
    /\ UNCHANGED <<input, pc, out, attrs, current, is_json, fpc, orig, examined>>

\* lib.rs 211-219: <Name as Deserialize>::deserialize(deserializer)
deserialize ==
    /\ pc = "Deserialize"
    /\ \E format \in Formats :
         call' = [made |-> TRUE, format |-> format,
                  invoked |-> Dispatch(out, format).invoked,
                  ret |-> Dispatch(out, format).ret]
    /\ UNCHANGED <<input, pc, out, attrs, current, is_json, fpc, orig, examined>>

Next == derive_serialize \/ derive_deserialize \/ serialize \/ deserialize

Spec == Init /\ [][Next]_vars

(***************************************************************************)
(* SpecFilter: the loop of filter_attrs, stepped.                          *)
(***************************************************************************)
InitFilter ==
    /\ is_json \in BOOLEAN
    /\ \E n \in 0..MaxLen : orig \in AttrVecs(n)
    /\ attrs = orig
    /\ current = 0
    /\ fpc = "loop"
    /\ examined = <<>>
    /\ input = Idle /\ pc = Idle /\ out = Idle /\ call = Idle

\* One pass through the loop body (the condition held).
FilterIter ==
    /\ fpc = "loop"
    /\ LoopCond(attrs, current)
    /\ LET s == LoopBody(attrs, current, is_json) IN
         /\ attrs' = s.attrs
         /\ current' = s.current
    /\ examined' = Append(examined, attrs[current + 1].span)
    /\ UNCHANGED <<is_json, fpc, orig, input, pc, out, call>>

\* The condition fails: filter_attrs returns.
FilterExit ==
    /\ fpc = "loop"
    /\ ~LoopCond(attrs, current)
    /\ fpc' = "done"
    /\ UNCHANGED <<attrs, current, is_json, orig, examined, input, pc, out, call>>

NextFilter == FilterIter \/ FilterExit

SpecFilter == InitFilter /\ [][NextFilter]_vars

\* The loop is straight-line code: while it can take a step it does.
FairSpecFilter == SpecFilter /\ WF_vars(NextFilter)

(***************************************************************************)
(* Properties                                                              *)
(***************************************************************************)
Range(s) == {s[i] : i \in DOMAIN s}

\* The mode-specific tag of the mode that is not `json`.
OtherTag(json) == IF json THEN "bin" ELSE "json"

\* The attribute `a` with its path set to serde and nothing else changed.
Retagged(a) ==
    [span |-> a.span,
     meta |-> [kind |-> a.meta.kind, path |-> "serde", payload |-> a.meta.payload]]

\* Every attribute list of a declaration: its own, then field by field, or
\* variant by variant with each variant's fields after the variant.
FieldLists(fields) == [i \in 1..Len(fields) |-> fields[i].attrs]

RECURSIVE VariantLists(_)
VariantLists(variants) ==
    IF variants = <<>> THEN <<>>
    ELSE <<Head(variants).attrs>> \o FieldLists(Head(variants).fields)
         \o VariantLists(Tail(variants))

AllLists(decl) ==
    <<decl.attrs>> \o FieldLists(decl.data.fields) \o VariantLists(decl.data.variants)

\* The declaration without its identifier and without any attribute.
Strip(decl) ==
    [generics |-> decl.generics,
     kind     |-> decl.data.kind,
     fields   |-> [i \in 1..Len(decl.data.fields) |->
                     [ident |-> decl.data.fields[i].ident, ty |-> decl.data.fields[i].ty]],
     variants |-> [i \in 1..Len(decl.data.variants) |->
                     [ident  |-> decl.data.variants[i].ident,
                      fields |-> [j \in 1..Len(decl.data.variants[i].fields) |->
                                    [ident |-> decl.data.variants[i].fields[j].ident,
                                     ty    |-> decl.data.variants[i].fields[j].ty]]]]]

IsType(p) == p.kind = "Type"

\* C1: when filter_attrs returns, every entry of the input whose tag is serde
\* or an unrecognized tag (not serde, json or bin) is still in the vector,
\* with tag and payload unchanged.
C1_KeepsSharedAndUnrecognized ==
    fpc = "done" =>
        \A i \in DOMAIN orig :
            orig[i].meta.path \notin {"json", "bin"} => orig[i] \in Range(attrs)

\* C2: after derive_deserialize, every list of the BinaryImpl copy holds each
\* bin-tagged attribute of the corresponding input list retagged to serde,
\* and holds nothing that was json-tagged in the input.
C2_DeserializeBinaryMode ==
    pc = "Deserialize" =>
        \A k \in DOMAIN AllLists(input) :
            LET a == AllLists(input)[k]
                b == AllLists(out.bin)[k]
            IN  \A i \in DOMAIN a :
                  /\ a[i].meta.path = "bin" => Retagged(a[i]) \in Range(b)
                  /\ a[i].meta.path = "json" => \A j \in DOMAIN b : b[j].span # a[i].span

\* C3: when filter_attrs returns, no entry of the vector carries the other
\* mode's tag (bin in text mode, json in binary mode).
C3_NoOtherModeTag ==
    fpc = "done" =>
        \A j \in DOMAIN attrs : attrs[j].meta.path # OtherTag(is_json)

C3_Witness ==
    /\ fpc = "done"
    /\ Len(orig) = 3
    /\ orig[1].meta.path = OtherTag(is_json)
    /\ orig[2].meta.path = OtherTag(is_json)
    /\ orig[3].meta.path = replace(is_json)
    /\ Len(attrs) = 1

\* C4: when filter_attrs returns, every entry of the input that carried the
\* mode's own tag (json in text mode, bin in binary mode) is in the vector
\* with its path rewritten to serde and its Meta variant and payload as
\* they were.
C4_OwnTagRewritten ==
    fpc = "done" =>
        \A i \in DOMAIN orig :
            orig[i].meta.path = replace(is_json) => Retagged(orig[i]) \in Range(attrs)

C4_Witness ==
    /\ fpc = "done"
    /\ Len(orig) = 3
    /\ \A i \in 1..3 : orig[i].meta.path = replace(is_json)
    /\ {orig[i].meta.kind : i \in 1..3} = {"Path", "List", "NameValue"}
    /\ \E i \in 1..3 : orig[i].meta.payload = "b"

\* C5: a call of the emitted serialize or deserialize function invokes
\* exactly one shadow, <Name>JsonImpl when the format is human readable and
\* <Name>BinaryImpl when it is not, and returns that shadow's outcome.
C5_DispatchOnHumanReadable ==
    call.made =>
        LET chosen == IF call.format.is_human_readable
                      THEN input.ident \o "JsonImpl"
                      ELSE input.ident \o "BinaryImpl"
        IN  /\ call.invoked = <<chosen>>
            /\ call.ret = [ok |-> call.format.ok, by |-> chosen]

C5_Witness ==
    /\ pc = "Deserialize"
    /\ call.made
    /\ ~call.format.is_human_readable
    /\ ~call.format.ok
    /\ call.invoked = <<"FooBinaryImpl">>

\* C6: for a declaration without a where clause and with at least one
\* generic parameter, the where clause of the emitted impl holds exactly one
\* bound per type parameter, in declaration order: P: Serialize from
\* derive_serialize, P: Deserialize<'de> from derive_deserialize.
C6_OneBoundPerTypeParam ==
    (pc # "input" /\ ~input.generics.where_clause.some /\ input.generics.params # <<>>) =>
        LET tys == SelectSeq(input.generics.params, IsType)
            bound == IF pc = "Serialize" THEN "Serialize" ELSE "Deserialize<'de>"
        IN  /\ Len(out.where_clause) = Len(tys)
            /\ \A k \in DOMAIN tys :
                 out.where_clause[k] = [bounded |-> tys[k].ident, bound |-> bound]

C6_Witness ==
    /\ pc = "Deserialize"
    /\ ~input.generics.where_clause.some
    /\ Len(input.generics.params) = 3
    /\ input.generics.params[1].kind = "Lifetime"
    /\ input.generics.params[2].kind = "Type"
    /\ input.generics.params[3].kind = "Type"
    /\ Len(out.where_clause) = 2

\* C7 as stated: for a declaration with no generic parameter the emitted
\* impl has no where clause, whether or not the declaration has one.
C7_NoWhereClause ==
    (pc # "input" /\ input.generics.params = <<>>) => out.where_clause = <<>>

\* C7 as amended: for a declaration with no generic parameter the emitted
\* impl has exactly the predicates of the declaration's own where clause and
\* no added bound; so no where clause when the declaration has none (or an
\* empty one).
C7_OnlyDeclaredPredicates ==
    (pc # "input" /\ input.generics.params = <<>>) =>
        /\ out.where_clause = input.generics.where_clause.predicates
        /\ (~input.generics.where_clause.some => out.where_clause = <<>>)

C7_Witness ==
    /\ pc = "Serialize"
    /\ input.generics.params = <<>>
    /\ input.generics.where_clause.predicates # <<>>
    /\ out.where_clause = input.generics.where_clause.predicates

C9_EveryListFiltered ==
    \A json \in BOOLEAN :
        LET before == AllLists(input)
            after == AllLists(filter_data(input, json))
        IN  /\ Len(after) = Len(before)
            /\ \A k \in DOMAIN before :
                 /\ after[k] = filter_attrs(before[k], json)
                 /\ \A j \in DOMAIN after[k] : after[k][j].meta.path # OtherTag(json)
                 /\ before[k] = <<>> => after[k] = <<>>

C9_Witness ==
    /\ pc = "Serialize"
    /\ input.data.kind = "Enum"
    /\ Len(input.data.variants) = 3
    /\ input.data.variants[1].fields[1].attrs # <<>>
    /\ input.data.variants[1].fields[1].attrs[1].meta.path = "bin"
    /\ input.data.variants[3].attrs # <<>>
    /\ input.data.variants[3].attrs[1].meta.path = "bin"
    /\ input.data.variants[2].attrs = <<>>
    /\ out.json.data.variants[1].fields[1].attrs = <<>>
    /\ out.json.data.variants[3].attrs = <<>>
    /\ out.json.data.variants[2].attrs = <<>>

\* The iterations done and the entries not yet looked at add up to the input;
\* at the exit the entries looked at are the input's, each once, in order.
C10_Measure ==
    /\ Len(examined) + (Len(attrs) - current) = Len(orig)
    /\ 0 <= current /\ current <= Len(attrs)
    /\ fpc = "done" => examined = [i \in 1..Len(orig) |-> orig[i].span]

\* A step of the loop removes at the index or advances the index.
C10_Step ==
    (fpc = "loop" /\ fpc' = "loop") =>
        /\ Len(examined') = Len(examined) + 1
        /\ \/ Len(attrs') = Len(attrs) - 1 /\ current' = current
           \/ Len(attrs') = Len(attrs) /\ current' = current + 1

\* C10: every iteration of the loop of filter_attrs either removes the entry
\* at the current index and leaves the index, or keeps the length and
\* advances the index by one; the entries looked at are the entries of the
\* input, each once and in order, so the loop ends after exactly as many
\* iterations as the input has entries.
C10_OneIterationPerEntry ==
    /\ []C10_Measure
    /\ [][C10_Step]_vars
    /\ <>(fpc = "done")

C10_Witness ==
    /\ fpc = "done"
    /\ Len(orig) = 3
    /\ Len(attrs) = 1
    /\ Len(examined) = 3

====
